---------------------------- MODULE Spec2Model ----------------------------
(***************************************************************************)
(* revql: reverse path search over a GraphQL introspection schema.         *)
(*                                                                         *)
(* Strings that the program inspects character by character (type and     *)
(* field names: contains, ends_with) are sequences of one-character        *)
(* strings.  Option<T> is a sequence of length 0 (None) or 1 (Some).       *)
(* A HashMap/HashSet iteration visits the entries in an order the program  *)
(* does not control: every such loop draws its order with \E.              *)
(***************************************************************************)
EXTENDS Naturals, Sequences, FiniteSets

VARIABLES
    root,        \* main: Root.data, Option<Vec<Type>>
    args,        \* main: Args (search, containing, type_only, field_only, show_relay)
    type_map,    \* main: HashMap<String, &Type>
    pc,          \* position of the single thread of control
    caller,      \* which of run_search_for_type / run_search_for_field is running
    end_types,   \* run_search_for_type / _for_field: candidates not yet iterated
    target,      \* run_search_for_type / _for_field: end_type of the current iteration
    root_type,   \* run_search: start_type ("Query" or "Mutation")
    fields_left, \* run_search: field_map entries not yet iterated
    cur_field,   \* run_search: field of the current iteration
    result,      \* run_search: Vec<Vec<TypeField>> collected so far / being printed
    skipped,     \* history: the candidates that lines 141 and 162 have rejected
    start_type,  \* search: parameter
    end_type,    \* search: parameter
    visited,     \* search: HashSet<String>
    queue,       \* search: VecDeque<String>
    path,        \* search: HashMap<String, Option<TypeField>>
    ret,         \* search: the returned Vec<TypeField>
    pushed,      \* history: every name put on the frontier by the current search, in order
    popped,      \* history: every name taken from the frontier by the current search, in order
    stdout       \* the print_path calls made so far

main_vars == <<root, args, caller, end_types, target, root_type, fields_left,
               cur_field, result, skipped, stdout>>

search_vars == <<start_type, end_type, visited, queue, path, ret, pushed, popped>>

vars == <<root, args, type_map, pc, caller, end_types, target, root_type,
          fields_left, cur_field, result, skipped, start_type, end_type, visited,
          queue, path, ret, pushed, popped, stdout>>

-----------------------------------------------------------------------------
(* Option and string primitives                                            *)

None == <<>>

Some(x) == <<x>>

is_some(o) == Len(o) = 1

unwrap(o) == o[1]

\* str::contains(pat): pat occurs as a contiguous substring of s
contains(s, pat) ==
    \E i \in 0..Len(s) :
        /\ i + Len(pat) <= Len(s)
        /\ \A j \in 1..Len(pat) : s[i + j] = pat[j]

\* str::ends_with(suf)
ends_with(s, suf) ==
    /\ Len(suf) <= Len(s)
    /\ \A j \in 1..Len(suf) : s[Len(s) - Len(suf) + j] = suf[j]

Range(s) == {s[i] : i \in 1..Len(s)}

RECURSIVE Reverse(_)
Reverse(s) == IF s = <<>> THEN <<>> ELSE Append(Reverse(Tail(s)), Head(s))

\* every order in which a hash container can hand out the elements of S
Orders(S) ==
    {o \in [1..Cardinality(S) -> S] : \A i, j \in 1..Cardinality(S) : o[i] = o[j] => i = j}

-----------------------------------------------------------------------------
(* String literals of the source                                           *)

STR_Query == <<"Q", "u", "e", "r", "y">>

STR_Mutation == <<"M", "u", "t", "a", "t", "i", "o", "n">>

STR_PageInfo == <<"P", "a", "g", "e", "I", "n", "f", "o">>

STR_Connection == <<"C", "o", "n", "n", "e", "c", "t", "i", "o", "n">>

STR_Edge == <<"E", "d", "g", "e">>

STR_hasNextPage == <<"h", "a", "s", "N", "e", "x", "t", "P", "a", "g", "e">>

STR_hasPreviousPage ==
    <<"h", "a", "s", "P", "r", "e", "v", "i", "o", "u", "s", "P", "a", "g", "e">>

STR_edges == <<"e", "d", "g", "e", "s">>

STR_pageInfo == <<"p", "a", "g", "e", "I", "n", "f", "o">>

STR_cursor == <<"c", "u", "r", "s", "o", "r">>

STR_node == <<"n", "o", "d", "e">>

-----------------------------------------------------------------------------
(* schema.rs                                                               *)

\* struct TypeRef { name, kind, of_type }
TypeRef(name, kind, of_type) == [name |-> name, kind |-> kind, of_type |-> of_type]

\* struct Field { name, field_type }
Field(name, field_type) == [name |-> name, field_type |-> field_type]

\* struct Type { name, kind, fields }
Type(name, kind, fields) == [name |-> name, kind |-> kind, fields |-> fields]

\* Schema::get_type_map: collect() into a HashMap, a later duplicate name overwrites
get_type_map(types) ==
    [n \in {types[i].name : i \in 1..Len(types)} |->
        LET last == CHOOSE i \in 1..Len(types) :
                        /\ types[i].name = n
                        /\ \A j \in 1..Len(types) : types[j].name = n => j <= i
        IN  types[last]]

\* Type::is_object
Type_is_object(t) == t.kind = "OBJECT"

\* Type::get_field: the first field, in declaration order, that matches
get_field(t, field_name, containing) ==
    IF is_some(t.fields)
    THEN LET fields == unwrap(t.fields)
             hit(f) == IF containing THEN contains(f.name, field_name)
                                     ELSE f.name = field_name
             idx == {i \in 1..Len(fields) : hit(fields[i])}
         IN  IF idx = {} THEN None
             ELSE Some(fields[CHOOSE i \in idx : \A j \in idx : i <= j])
    ELSE None

\* Type::get_field_map: collect() into a HashMap, a later duplicate name overwrites
get_field_map(t) ==
    IF is_some(t.fields)
    THEN LET fields == unwrap(t.fields)
         IN  [n \in {fields[i].name : i \in 1..Len(fields)} |->
                 LET last == CHOOSE i \in 1..Len(fields) :
                                 /\ fields[i].name = n
                                 /\ \A j \in 1..Len(fields) : fields[j].name = n => j <= i
                 IN  fields[last]]
    ELSE <<>>

\* Type::is_relay
is_relay(t) ==
    IF is_some(t.fields)
    THEN LET names == {f.name : f \in Range(unwrap(t.fields))}
         IN  \/ (t.name = STR_PageInfo /\ STR_hasNextPage \in names
                    /\ STR_hasPreviousPage \in names)
             \/ (ends_with(t.name, STR_Connection) /\ STR_edges \in names
                    /\ STR_pageInfo \in names)
             \/ (ends_with(t.name, STR_Edge) /\ STR_cursor \in names
                    /\ STR_node \in names)
    ELSE FALSE

\* TypeRef::get_deepest
RECURSIVE get_deepest(_)
get_deepest(r) == IF is_some(r.of_type) THEN get_deepest(unwrap(r.of_type)) ELSE r

\* TypeRef::is_object
TypeRef_is_object(r) == r.kind = "OBJECT"

\* get_type_name with unwrap_or_default in place of the panic
get_type_name_or_default(f) ==
    IF is_some(get_deepest(f.field_type).name) THEN get_deepest(f.field_type).name
    ELSE Some(<<>>)

\* Field::get_type_name: the deepest name; None stands for the panic of unwrap_or_else
get_type_name(f) == get_deepest(f.field_type).name

-----------------------------------------------------------------------------
(* main.rs: struct TypeField and search                                    *)

\* TypeField::new
TypeField(type_name, field_name) == [type_name |-> type_name, field_name |-> field_name]

\* HashMap::insert
insert(m, k, v) == [x \in DOMAIN m \cup {k} |-> IF x = k THEN v ELSE m[x]]

\* search, lines 83-89: walk the predecessor links back from end_type, then reverse
RECURSIVE walk_back(_, _)
walk_back(links, current_path) ==
    IF is_some(current_path)
    THEN <<unwrap(current_path)>> \o walk_back(links, links[unwrap(current_path).type_name])
    ELSE <<>>

\* reconstruct without the final reversal
reconstruct_unreversed(links, end) == walk_back(links, links[end])

reconstruct(links, end) == Reverse(walk_back(links, links[end]))

\* search, lines 83 and 87: path[..] panics on a key the map does not hold
RECURSIVE links_present(_, _, _)
links_present(links, key, fuel) ==
    /\ key \in DOMAIN links
    /\ \/ ~is_some(links[key])
       \/ fuel > 0 /\ links_present(links, unwrap(links[key]).type_name, fuel - 1)

\* visit_field without the visited check of line 97
visit_field_revisiting(st, current, field_name, field) ==
    LET type_ref == get_deepest(field.field_type)
    IN  IF ~TypeRef_is_object(type_ref) THEN st
        ELSE IF is_some(type_ref.name)
        THEN LET type_name == unwrap(type_ref.name)
             IN  [visited |-> st.visited \cup {type_name},
                  queue   |-> Append(st.queue, type_name),
                  path    |-> insert(st.path, type_name,
                                     Some(TypeField(current, Some(field_name))))]
        ELSE st

\* visit_field without the is_object check of line 95
visit_field_any_kind(st, current, field_name, field) ==
    LET type_ref == get_deepest(field.field_type)
    IN  IF is_some(type_ref.name)
        THEN LET type_name == unwrap(type_ref.name)
             IN  IF type_name \in st.visited THEN st
                 ELSE [visited |-> st.visited \cup {type_name},
                       queue   |-> Append(st.queue, type_name),
                       path    |-> insert(st.path, type_name,
                                          Some(TypeField(current, Some(field_name))))]
        ELSE st

\* search, lines 94-101: the body of the loop over the fields of `current`
\* st is the record of the locals visited, queue, path
visit_field(st, current, field_name, field) ==
    LET type_ref == get_deepest(field.field_type)
    IN  IF ~TypeRef_is_object(type_ref) THEN st
        ELSE IF is_some(type_ref.name)
        THEN LET type_name == unwrap(type_ref.name)
             IN  IF type_name \in st.visited THEN st
                 ELSE [visited |-> st.visited \cup {type_name},
                       queue   |-> Append(st.queue, type_name),
                       path    |-> insert(st.path, type_name,
                                          Some(TypeField(current, Some(field_name))))]
        ELSE st

\* search, line 93: for (field_name, field) in field_map, in the order `order`
RECURSIVE visit_fields(_, _, _, _)
visit_fields(st, current, field_map, order) ==
    IF order = <<>> THEN st
    ELSE visit_fields(visit_field(st, current, Head(order), field_map[Head(order)]),
                      current, field_map, Tail(order))

\* where search returns to
after_search == IF caller = "none" THEN "done" ELSE "run_search_got"

\* search, lines 73-75: start_type == end_type
search_same ==
    /\ pc = "search"
    /\ start_type = end_type
    /\ ret' = <<TypeField(start_type, None)>>
    /\ pushed' = <<>>
    /\ popped' = <<>>
    /\ pc' = after_search
    /\ UNCHANGED <<main_vars, type_map, start_type, end_type, visited, queue, path>>

\* search, lines 77-79
search_begin ==
    /\ pc = "search"
    /\ start_type # end_type
    /\ visited' = {start_type}
    /\ queue' = <<start_type>>
    /\ path' = insert(<<>>, start_type, None)
    /\ pushed' = <<start_type>>
    /\ popped' = <<>>
    /\ pc' = "search_loop"
    /\ UNCHANGED <<main_vars, type_map, start_type, end_type, ret>>

\* search, lines 80-81: the popped name is not a key of type_map
search_skip ==
    /\ pc = "search_loop"
    /\ queue # <<>>
    /\ Head(queue) \notin DOMAIN type_map
    /\ queue' = Tail(queue)
    /\ popped' = Append(popped, Head(queue))
    /\ UNCHANGED <<main_vars, type_map, pc, start_type, end_type, visited, path, ret,
                   pushed>>

\* search, lines 82-90: the popped type is end_type
search_found ==
    /\ pc = "search_loop"
    /\ queue # <<>>
    /\ Head(queue) \in DOMAIN type_map
    /\ type_map[Head(queue)].name = end_type
    /\ queue' = Tail(queue)
    /\ popped' = Append(popped, Head(queue))
    /\ IF links_present(path, end_type, Cardinality(DOMAIN path))
       THEN ret' = reconstruct(path, end_type) /\ pc' = after_search
       ELSE ret' = ret /\ pc' = "panic_search"
    /\ UNCHANGED <<main_vars, type_map, start_type, end_type, visited, path, pushed>>

\* search, lines 92-102: expand the popped type
search_expand ==
    /\ pc = "search_loop"
    /\ queue # <<>>
    /\ Head(queue) \in DOMAIN type_map
    /\ type_map[Head(queue)].name # end_type
    /\ LET current == Head(queue)
           field_map == get_field_map(type_map[current])
       IN  \E order \in Orders(DOMAIN field_map) :
               LET st == visit_fields([visited |-> visited, queue |-> Tail(queue),
                                       path |-> path],
                                      current, field_map, order)
               IN  /\ visited' = st.visited
                   /\ queue' = st.queue
                   /\ path' = st.path
                   /\ pushed' = pushed \o SubSeq(st.queue, Len(queue), Len(st.queue))
                   /\ popped' = Append(popped, current)
    /\ UNCHANGED <<main_vars, type_map, pc, start_type, end_type, ret>>

\* search, lines 80 and 104: the queue is empty
search_exhausted ==
    /\ pc = "search_loop"
    /\ queue = <<>>
    /\ ret' = <<>>
    /\ pc' = after_search
    /\ UNCHANGED <<main_vars, type_map, start_type, end_type, visited, queue, path,
                   pushed, popped>>

-----------------------------------------------------------------------------
(* main.rs: run_search, run_search_for_type, run_search_for_field,         *)
(* print_path, main                                                        *)

\* run_search, line 121 appended to the path instead of inserted at index 0
with_root_hop_last(start, field, p) == Append(p, TypeField(start, Some(field.name)))

\* run_search without line 121
with_root_hop_missing(start, field, p) == p

\* run_search, line 121: path.insert(0, TypeField::new(start_type, Some(field.name)))
with_root_hop(start, field, p) == <<TypeField(start, Some(field.name))>> \o p

\* run_search, lines 113-117: start_type is no key of type_map
run_search_absent ==
    /\ pc = "run_search"
    /\ root_type \notin DOMAIN type_map
    /\ result' = <<>>
    /\ pc' = "print"
    /\ UNCHANGED <<root, args, caller, end_types, target, root_type, fields_left,
                   cur_field, skipped, stdout, type_map, search_vars>>

\* run_search, lines 112-118
run_search_begin ==
    /\ pc = "run_search"
    /\ root_type \in DOMAIN type_map
    /\ result' = <<>>
    /\ fields_left' = DOMAIN get_field_map(type_map[root_type])
    /\ pc' = "run_search_loop"
    /\ UNCHANGED <<root, args, caller, end_types, target, root_type, cur_field,
                   skipped, stdout, type_map, search_vars>>

\* run_search, lines 118-119: the next field has a deepest type name; call search
run_search_call ==
    /\ pc = "run_search_loop"
    /\ \E f \in fields_left :
          LET field == get_field_map(type_map[root_type])[f]
          IN  /\ is_some(get_type_name(field))
              /\ fields_left' = fields_left \ {f}
              /\ cur_field' = field
              /\ start_type' = unwrap(get_type_name(field))
              /\ end_type' = target.type_name
              /\ pc' = "search"
    /\ UNCHANGED <<root, args, caller, end_types, target, root_type, result, skipped,
                   stdout, type_map, visited, queue, path, ret, pushed, popped>>

\* run_search, line 119: get_type_name panics
run_search_panic ==
    /\ pc = "run_search_loop"
    /\ \E f \in fields_left :
          LET field == get_field_map(type_map[root_type])[f]
          IN  /\ ~is_some(get_type_name(field))
              /\ fields_left' = fields_left \ {f}
              /\ cur_field' = field
              /\ pc' = "panic_get_type_name"
    /\ UNCHANGED <<root, args, caller, end_types, target, root_type, result, skipped,
                   stdout, type_map, search_vars>>

\* run_search, lines 120-123: search has returned
run_search_got ==
    /\ pc = "run_search_got"
    /\ result' = IF ret # <<>> THEN Append(result, with_root_hop(root_type, cur_field, ret))
                 ELSE result
    /\ pc' = "run_search_loop"
    /\ UNCHANGED <<root, args, caller, end_types, target, root_type, fields_left,
                   cur_field, skipped, stdout, type_map, search_vars>>

\* run_search, line 125
run_search_return ==
    /\ pc = "run_search_loop"
    /\ fields_left = {}
    /\ pc' = "print"
    /\ UNCHANGED <<main_vars, type_map, search_vars>>

\* print_path, line 183: type_map[..] is evaluated when show_relay is false, and panics
\* on a name that is no key
print_path_panics(p, show_relay, tm) ==
    ~show_relay /\ \E idx \in 1..Len(p) : p[idx].type_name \notin DOMAIN tm

\* print_path, lines 182-189: the hops printed, each with whether " -> " precedes it
RECURSIVE print_path_hops(_, _, _, _)
print_path_hops(p, idx, show_relay, tm) ==
    IF idx > Len(p) THEN <<>>
    ELSE (IF (IF show_relay THEN TRUE ELSE ~is_relay(tm[p[idx].type_name]))
          THEN <<[arrow |-> idx > 1, hop |-> p[idx]]>>
          ELSE <<>>) \o print_path_hops(p, idx + 1, show_relay, tm)

\* lines 145-147, 149-151, 169-171, 173-175: print_path on the next path of the result
print_path ==
    /\ pc = "print"
    /\ result # <<>>
    /\ IF print_path_panics(Head(result), args.show_relay, type_map)
       THEN pc' = "panic_print_path" /\ UNCHANGED <<result, stdout>>
       ELSE /\ stdout' = Append(stdout,
                            [text |-> "path", result |-> target, path |-> Head(result),
                             hops |-> print_path_hops(Head(result), 1, args.show_relay,
                                                      type_map)])
            /\ result' = Tail(result)
            /\ pc' = pc
    /\ UNCHANGED <<root, args, caller, end_types, target, root_type, fields_left,
                   cur_field, skipped, type_map, search_vars>>

\* lines 145-151 and 169-175: after the paths from "Query", those from "Mutation"
print_done ==
    /\ pc = "print"
    /\ result = <<>>
    /\ IF root_type = STR_Query
       THEN root_type' = STR_Mutation /\ pc' = "run_search"
       ELSE root_type' = root_type /\ pc' = "for_end_type"
    /\ UNCHANGED <<root, args, caller, end_types, target, fields_left, cur_field,
                   result, skipped, stdout, type_map, search_vars>>

\* line 141 without the contains_key test
skip_end_type_if_relay(name, show_relay, tm) ==
    IF name \in DOMAIN tm THEN ~show_relay /\ is_relay(tm[name]) ELSE FALSE

\* run_search_for_type, line 141
skip_end_type(name, show_relay, tm) ==
    IF name \notin DOMAIN tm THEN TRUE ELSE ~show_relay /\ is_relay(tm[name])

\* line 162 without the is_relay test
skip_type_never(name, show_relay, tm) == name \notin DOMAIN tm

\* run_search_for_field, line 162
skip_type(name, show_relay, tm) ==
    IF name \notin DOMAIN tm THEN TRUE ELSE ~show_relay /\ is_relay(tm[name])

\* run_search_for_type, lines 134-138
run_search_for_type ==
    /\ pc = "run_search_for_type"
    /\ caller' = "type"
    /\ end_types' = IF args.containing
                    THEN { name \in DOMAIN type_map : contains(name, args.search) }
                    ELSE { args.search }
    /\ pc' = "for_end_type"
    /\ UNCHANGED <<root, args, target, root_type, fields_left, cur_field, result,
                   skipped, stdout, type_map, search_vars>>

\* run_search_for_type, lines 140-145: the loop advances, passing over the end_types
\* that line 141 rejects, to an end_type that is searched for from "Query"
for_end_type_search ==
    /\ pc = "for_end_type"
    /\ caller = "type"
    /\ \E name \in end_types :
          /\ ~skip_end_type(name, args.show_relay, type_map)
          /\ end_types' = end_types \ {name}
          /\ target' = TypeField(name, None)
    /\ root_type' = STR_Query
    /\ pc' = "run_search"
    /\ UNCHANGED <<root, args, caller, fields_left, cur_field, result, skipped,
                   stdout, type_map, search_vars>>

\* run_search_for_type, lines 140-143 and 152: line 141 rejects every end_type that
\* is left, and the function returns; main, lines 204-211
for_end_type_done ==
    /\ pc = "for_end_type"
    /\ caller = "type"
    /\ \A name \in end_types : skip_end_type(name, args.show_relay, type_map)
    /\ skipped' = skipped \cup end_types
    /\ end_types' = {}
    /\ pc' = IF args.type_only THEN "done" ELSE "run_search_for_field"
    /\ UNCHANGED <<root, args, caller, target, root_type, fields_left, cur_field,
                   result, stdout, type_map, search_vars>>

\* run_search_for_field, line 161: for t in type_map.values()
run_search_for_field ==
    /\ pc = "run_search_for_field"
    /\ caller' = "field"
    /\ end_types' = DOMAIN type_map
    /\ pc' = "for_end_type"
    /\ UNCHANGED <<root, args, target, root_type, fields_left, cur_field, result,
                   skipped, stdout, type_map, search_vars>>

\* run_search_for_field, lines 161-169: the loop advances, passing over the types
\* that line 162 rejects and those without a matching field, to a type with a
\* matching field, which is searched for from "Query"
for_type_search ==
    /\ pc = "for_end_type"
    /\ caller = "field"
    /\ \E name \in end_types :
          LET t == type_map[name]
              field == get_field(t, args.search, args.containing)
          IN  /\ ~skip_type(t.name, args.show_relay, type_map)
              /\ is_some(field)
              /\ end_types' = end_types \ {name}
              /\ target' = TypeField(t.name, Some(unwrap(field).name))
    /\ root_type' = STR_Query
    /\ pc' = "run_search"
    /\ UNCHANGED <<root, args, caller, fields_left, cur_field, result, skipped,
                   stdout, type_map, search_vars>>

\* run_search_for_field, lines 161-167 and 177: every type that is left is rejected
\* by line 162 or has no matching field, and the function returns; main, lines 207, 210
for_type_done ==
    /\ pc = "for_end_type"
    /\ caller = "field"
    /\ \A name \in end_types :
          IF skip_type(type_map[name].name, args.show_relay, type_map) THEN TRUE
          ELSE ~is_some(get_field(type_map[name], args.search, args.containing))
    /\ skipped' = skipped \cup { name \in end_types :
                                   skip_type(type_map[name].name, args.show_relay, type_map) }
    /\ end_types' = {}
    /\ pc' = "done"
    /\ UNCHANGED <<root, args, caller, target, root_type, fields_left, cur_field,
                   result, stdout, type_map, search_vars>>

\* main, lines 197-200: data is null
main_empty ==
    /\ pc = "main"
    /\ ~is_some(root)
    /\ stdout' = Append(stdout, [text |-> "Empty schema", result |-> target,
                                 path |-> <<>>, hops |-> <<>>])
    /\ pc' = "done"
    /\ UNCHANGED <<root, args, caller, end_types, target, root_type, fields_left,
                   cur_field, result, skipped, type_map, search_vars>>

\* main, lines 202-211
main_search ==
    /\ pc = "main"
    /\ is_some(root)
    /\ type_map' = get_type_map(unwrap(root))
    /\ pc' = IF args.type_only THEN "run_search_for_type"
             ELSE IF args.field_only THEN "run_search_for_field"
             ELSE "run_search_for_type"
    /\ UNCHANGED <<main_vars, search_vars>>

-----------------------------------------------------------------------------
(* Inputs of search: every type map over the types A, B, C (objects) and   *)
(* ID (scalar) whose fields are drawn from FieldTypes, D being a name no   *)
(* type carries.  A, B and C are interchangeable, so a search starts at A  *)
(* or at D.                                                                *)

MaxFields == 2

MaxTotalFields == 3

nA == <<"A">>

nB == <<"B">>

nC == <<"C">>

nD == <<"D">>

nID == <<"I", "D">>

\* A, B!, [C], D (dangling), ID! (a scalar), [<object without a name>]
FieldTypes ==
    { TypeRef(Some(nA), "OBJECT", None),
      TypeRef(None, "NON_NULL", Some(TypeRef(Some(nB), "OBJECT", None))),
      TypeRef(None, "LIST", Some(TypeRef(Some(nC), "OBJECT", None))),
      TypeRef(Some(nD), "OBJECT", None),
      TypeRef(None, "NON_NULL", Some(TypeRef(Some(nID), "SCALAR", None))),
      TypeRef(None, "LIST", Some(TypeRef(None, "OBJECT", None))) }

\* the i-th declared field of a type is named w, x, y, z, ...
FieldNames == <<(<<"w">>), (<<"x">>), (<<"y">>), (<<"z">>), (<<"v">>)>>

FieldLists ==
    UNION { { [i \in 1..n |-> Field(FieldNames[i], r[i])] : r \in [1..n -> FieldTypes] }
            : n \in 0..MaxFields }

SearchTypes ==
    { <<Type(nA, "OBJECT", Some(f[1])), Type(nB, "OBJECT", Some(f[2])),
        Type(nC, "OBJECT", Some(f[3])), Type(nID, "SCALAR", None)>>
      : f \in { g \in FieldLists \X FieldLists \X FieldLists :
                  Len(g[1]) + Len(g[2]) + Len(g[3]) <= MaxTotalFields } }

SearchNames == {nA, nB, nC, nD, nID}

SearchStarts == {nA, nD}

NoArgs == [search |-> <<>>, containing |-> FALSE, type_only |-> FALSE,
           field_only |-> FALSE, show_relay |-> FALSE]

NoTypeField == TypeField(<<>>, None)

SearchInit ==
    /\ type_map \in { get_type_map(types) : types \in SearchTypes }
    /\ start_type \in SearchStarts
    /\ end_type \in SearchNames
    /\ pc = "search"
    /\ caller = "none"
    /\ root = None
    /\ args = NoArgs
    /\ end_types = {}
    /\ target = NoTypeField
    /\ root_type = <<>>
    /\ fields_left = {}
    /\ cur_field = <<>>
    /\ result = <<>>
    /\ skipped = {}
    /\ visited = {}
    /\ queue = <<>>
    /\ path = <<>>
    /\ ret = <<>>
    /\ pushed = <<>>
    /\ popped = <<>>
    /\ stdout = <<>>

SearchNext ==
    \/ search_same
    \/ search_begin
    \/ search_skip
    \/ search_found
    \/ search_expand
    \/ search_exhausted

SearchSpec == SearchInit /\ [][SearchNext]_vars

-----------------------------------------------------------------------------
(* Inputs of main: data null, or every schema over the types Query, AEdge  *)
(* (objects), N (an interface), ID (a scalar) and the objects A and        *)
(* Mutation, either of which a schema may omit, with their fields drawn    *)
(* from FieldsOfType (at most MaxFields for Query, A and AEdge, at most    *)
(* MaxMinorFields for N and Mutation); the arguments search, --containing, *)
(* --type, --field, --show-relay                                           *)

MaxMinorFields == 1

nN == <<"N">>

nAEdge == <<"A", "E", "d", "g", "e">>

f_node == Field(STR_node, TypeRef(Some(nA), "OBJECT", None))

f_edge ==
    Field(<<"e", "d", "g", "e">>,
          TypeRef(None, "LIST", Some(TypeRef(Some(nAEdge), "OBJECT", None))))

f_nodes ==
    Field(<<"n", "o", "d", "e", "s">>,
          TypeRef(None, "NON_NULL", Some(TypeRef(Some(nN), "INTERFACE", None))))

f_cursor ==
    Field(STR_cursor, TypeRef(None, "NON_NULL", Some(TypeRef(Some(nID), "SCALAR", None))))

f_bad == Field(<<"b", "a", "d">>, TypeRef(None, "LIST", Some(TypeRef(None, "OBJECT", None))))

\* the fields a type of the schema may declare:
\* node: A   edge: [AEdge]   nodes: N!   cursor: ID!   bad: [<a type without a name>]
FieldsOfType(name) ==
    IF name \in {STR_Query, STR_Mutation} THEN {f_node, f_edge, f_nodes, f_bad}
    ELSE IF name = nA THEN {f_node, f_edge, f_bad}
    ELSE IF name = nAEdge THEN {f_cursor, f_node}
    ELSE {f_node}

Declared(name, max) == UNION { [1..n -> FieldsOfType(name)] : n \in 0..max }

\* the declarations a schema may hold for a type: Some(fields), or None when it
\* may omit the type
Declarations(name, max, optional) ==
    { Some(g) : g \in Declared(name, max) } \cup (IF optional THEN {None} ELSE {})

Declaration(name, kind, d) ==
    IF is_some(d) THEN <<Type(name, kind, d)>> ELSE <<>>

FieldCount(d) == IF is_some(d) THEN Len(unwrap(d)) ELSE 0

Schemas ==
    LET choices ==
            { d \in Declarations(STR_Query, MaxFields, FALSE)
                       \X Declarations(nA, MaxFields, TRUE)
                       \X Declarations(nAEdge, MaxFields, FALSE)
                       \X Declarations(nN, MaxMinorFields, FALSE)
                       \X Declarations(STR_Mutation, MaxMinorFields, TRUE) :
                FieldCount(d[1]) + FieldCount(d[2]) + FieldCount(d[3]) + FieldCount(d[4])
                    + FieldCount(d[5]) <= MaxTotalFields }
    IN  { Declaration(STR_Query, "OBJECT", d[1]) \o Declaration(nA, "OBJECT", d[2])
            \o Declaration(nAEdge, "OBJECT", d[3]) \o Declaration(nN, "INTERFACE", d[4])
            \o <<Type(nID, "SCALAR", None)>> \o Declaration(STR_Mutation, "OBJECT", d[5])
          : d \in choices }

Searches == {nA, STR_node}

Init ==
    /\ root \in {None} \cup { Some(types) : types \in Schemas }
    /\ args \in [search : Searches, containing : BOOLEAN, type_only : BOOLEAN,
                  field_only : BOOLEAN, show_relay : BOOLEAN]
    /\ type_map = <<>>
    /\ pc = "main"
    /\ caller = "main"
    /\ end_types = {}
    /\ target = NoTypeField
    /\ root_type = <<>>
    /\ fields_left = {}
    /\ cur_field = <<>>
    /\ result = <<>>
    /\ skipped = {}
    /\ start_type = <<>>
    /\ end_type = <<>>
    /\ visited = {}
    /\ queue = <<>>
    /\ path = <<>>
    /\ ret = <<>>
    /\ pushed = <<>>
    /\ popped = <<>>
    /\ stdout = <<>>

Next ==
    \/ main_empty
    \/ main_search
    \/ run_search_for_type
    \/ for_end_type_search
    \/ for_end_type_done
    \/ run_search_for_field
    \/ for_type_search
    \/ for_type_done
    \/ run_search_absent
    \/ run_search_begin
    \/ run_search_call
    \/ run_search_panic
    \/ run_search_got
    \/ run_search_return
    \/ print_path
    \/ print_done
    \/ search_same
    \/ search_begin
    \/ search_skip
    \/ search_found
    \/ search_expand
    \/ search_exhausted

Spec == Init /\ [][Next]_vars

-----------------------------------------------------------------------------
(* The object-field graph of a type map, defined apart from search         *)

\* <<t, f, u>>: type t of the map has field f, whose deepest type reference has
\* kind OBJECT and the name u
ObjectEdges(tm) ==
    LET pairs == UNION { { <<t, f>> : f \in DOMAIN get_field_map(tm[t]) } : t \in DOMAIN tm }
        ref(p) == get_deepest(get_field_map(tm[p[1]])[p[2]].field_type)
    IN  { <<p[1], p[2], unwrap(ref(p).name)>>
          : p \in { q \in pairs : ref(q).kind = "OBJECT" /\ is_some(ref(q).name) } }

Successors(tm, S) == { e[3] : e \in { d \in ObjectEdges(tm) : d[1] \in S } }

\* the names at most k hops from s
RECURSIVE Within(_, _, _)
Within(tm, s, k) ==
    IF k = 0 THEN {s}
    ELSE LET P == Within(tm, s, k - 1) IN P \cup Successors(tm, P)

MaxHops(tm) == Cardinality(DOMAIN tm) + 1

Reachable(tm, s, t) == t \in Within(tm, s, MaxHops(tm))

\* the minimum number of hops from s to t (t reachable from s)
Dist(tm, s, t) ==
    CHOOSE k \in 0..MaxHops(tm) :
        /\ t \in Within(tm, s, k)
        /\ k = 0 \/ t \notin Within(tm, s, k - 1)

\* p is a chain of (type, field) hops of the graph from s to t
IsChain(tm, p, s, t) ==
    /\ Len(p) >= 1
    /\ p[1].type_name = s
    /\ \A i \in 1..Len(p) :
          /\ is_some(p[i].field_name)
          /\ <<p[i].type_name, unwrap(p[i].field_name),
                IF i < Len(p) THEN p[i + 1].type_name ELSE t>> \in ObjectEdges(tm)

\* the breadth-first search that expands the fields of a type in the order the
\* schema declares them and takes the frontier first in, first out
DeclaredOrder(t) ==
    IF is_some(t.fields)
    THEN LET fields == unwrap(t.fields)
             first == { i \in 1..Len(fields) : \A j \in 1..(i - 1) : fields[j].name # fields[i].name }
             nth(k) == CHOOSE i \in first : Cardinality({ j \in first : j < i }) = k - 1
         IN  [k \in 1..Cardinality(first) |-> fields[nth(k)].name]
    ELSE <<>>

RECURSIVE DeclaredOrderLoop(_, _, _)
DeclaredOrderLoop(tm, st, end) ==
    IF st.queue = <<>> THEN <<>>
    ELSE LET current == Head(st.queue)
             rest == [st EXCEPT !.queue = Tail(st.queue)]
         IN  IF current \notin DOMAIN tm THEN DeclaredOrderLoop(tm, rest, end)
             ELSE IF current = end THEN reconstruct(st.path, end)
             ELSE DeclaredOrderLoop(tm,
                      visit_fields(rest, current, get_field_map(tm[current]),
                                   DeclaredOrder(tm[current])),
                      end)

DeclaredOrderSearch(tm, start, end) ==
    IF start = end THEN <<TypeField(start, None)>>
    ELSE DeclaredOrderLoop(tm, [visited |-> {start}, queue |-> <<start>>,
                                path |-> insert(<<>>, start, None)], end)

NoDuplicates(s) == \A i, j \in 1..Len(s) : s[i] = s[j] => i = j

IsPrefix(s, t) == Len(s) <= Len(t) /\ \A i \in 1..Len(s) : s[i] = t[i]

\* every type name a search can meet: the keys of the map and the names its fields refer to
NamesOf(tm) == DOMAIN tm \cup { e[3] : e \in ObjectEdges(tm) }

SearchReturned == pc = "done" /\ caller = "none"

-----------------------------------------------------------------------------
(* Claims about search, checked under SearchSpec                           *)

C2_FrontierOnce ==
    /\ NoDuplicates(pushed)
    /\ IsPrefix(popped, pushed)
    /\ Len(popped) <= Cardinality(NamesOf(type_map) \cup {start_type})
    /\ pc = "search_loop" => pushed = popped \o queue

\* a search over a type with a field of its own type ran to its end
C2_Witness ==
    /\ SearchReturned
    /\ <<start_type, FieldNames[1], start_type>> \in ObjectEdges(type_map)
    /\ start_type \in Range(popped)
    /\ Len(popped) >= 2
    /\ ret = <<>>

\* C4: when end_type is not reachable from start_type # end_type, search returns
\* the empty sequence; search never panics; a name taken from the frontier that
\* is no key of the map is the source of no predecessor link.
C4_NoPathIsEmpty ==
    /\ pc # "panic_search"
    /\ (SearchReturned /\ start_type # end_type
            /\ ~Reachable(type_map, start_type, end_type)) => ret = <<>>
    /\ \A n \in Range(popped) \ DOMAIN type_map :
          \A k \in DOMAIN path : is_some(path[k]) => unwrap(path[k]).type_name # n

\* a dangling name was taken from the frontier and the search came back empty
C4_Witness ==
    /\ SearchReturned
    /\ start_type \in DOMAIN type_map
    /\ nD \in Range(popped)
    /\ ~Reachable(type_map, start_type, end_type)
    /\ ret = <<>>

\* C7 as stated: search returns what the declared-order breadth-first search returns.
C7_AsStated ==
    SearchReturned => ret = DeclaredOrderSearch(type_map, start_type, end_type)

-----------------------------------------------------------------------------
(* Claims about the type search and the field search, checked under Spec   *)

\* the print_path calls made: the target and the path handed over
Emitted == { stdout[i] : i \in { j \in 1..Len(stdout) : stdout[j].text = "path" } }

ByFieldSearch(e) == is_some(e.result.field_name)

\* the number of field hops of a path
Hops(p) == Cardinality({ i \in 1..Len(p) : is_some(p[i].field_name) })

\* a root search (run_search and what it calls, or the printing of its result) is
\* under way for `target`
InRootSearch ==
    pc \in {"run_search", "run_search_loop", "search", "search_loop", "run_search_got",
            "print", "panic_get_type_name", "panic_search", "panic_print_path"}

DeepestName(f) == get_deepest(f.field_type).name

\* the fields of `root` that a chain can start with
RootFields(tm, rootname) ==
    IF rootname \in DOMAIN tm
    THEN { f \in { get_field_map(tm[rootname])[n] : n \in DOMAIN get_field_map(tm[rootname]) } :
             is_some(DeepestName(f)) }
    ELSE {}

\* the hop counts of the field-chains from `rootname` to t: one hop for a field of
\* the root type that is an edge of the graph, then a shortest chain from where it leads
ChainHops(tm, rootname, t) ==
    { 1 + Dist(tm, e[3], t)
      : e \in { d \in ObjectEdges(tm) : d[1] = rootname /\ Reachable(tm, d[3], t) } }

C5_RelaySkipped ==
    /\ \A e \in Emitted :
          /\ e.result.type_name \in DOMAIN type_map
          /\ ~args.show_relay => ~is_relay(type_map[e.result.type_name])
    /\ InRootSearch =>
          /\ target.type_name \in DOMAIN type_map
          /\ ~args.show_relay => ~is_relay(type_map[target.type_name])
    /\ \A name \in skipped :
          IF name \in DOMAIN type_map
          THEN ~args.show_relay /\ is_relay(type_map[name])
          ELSE TRUE

\* with show_relay false a relay type that a field of Query leads to was rejected
C5_Witness ==
    /\ pc = "done"
    /\ ~args.show_relay
    /\ \E name \in skipped \cap DOMAIN type_map :
          /\ is_relay(type_map[name])
          /\ \E f \in RootFields(type_map, STR_Query) :
                Reachable(type_map, unwrap(DeepestName(f)), name)

\* C6 as stated: the field search runs root searches and emits paths only for
\* targets whose type has kind OBJECT.
C6_AsStated ==
    /\ (caller = "field" /\ InRootSearch) => Type_is_object(type_map[target.type_name])
    /\ \A e \in Emitted :
          ByFieldSearch(e) => Type_is_object(type_map[e.result.type_name])

\* the fields of the root type that run_search has taken from the field map
TakenRootFields ==
    IF pc \in {"run_search_loop", "search", "search_loop", "run_search_got",
               "panic_get_type_name", "panic_search"}
    THEN { get_field_map(type_map[root_type])[n]
           : n \in DOMAIN get_field_map(type_map[root_type]) \ fields_left }
    ELSE {}

\* the fields of the types that the search under way has expanded
ExpandedFields ==
    IF caller # "main" /\ pc \in {"search_loop", "run_search_got", "panic_search"}
    THEN UNION { Range(unwrap(type_map[n].fields))
                 : n \in { m \in Range(popped) \cap DOMAIN type_map :
                             m # end_type /\ is_some(type_map[m].fields) } }
    ELSE {}

Panicked == pc \in {"panic_get_type_name", "panic_search", "panic_print_path"}

\* C8 as stated: once a root search has processed a field without a deepest type
\* name, as a field of the root type or of a type expanded by search, the run is
\* in the abort state.
C8_AsStated ==
    (\E f \in TakenRootFields \cup ExpandedFields : ~is_some(DeepestName(f))) => Panicked

\* C8 amended: once run_search has taken a field of the root type that has no
\* deepest type name the run is in the abort state, and it aborts this way for no
\* other field; search itself never aborts, and a field without a deepest type name
\* of a type it expands is the source of no predecessor link.
C8_RootFieldFatal ==
    /\ (\E f \in TakenRootFields : ~is_some(DeepestName(f))) => pc = "panic_get_type_name"
    /\ pc = "panic_get_type_name" => ~is_some(DeepestName(cur_field))
    /\ pc # "panic_search"
    /\ (caller # "main" /\ pc \in {"search_loop", "run_search_got"}) =>
          \A k \in DOMAIN path :
              is_some(path[k]) =>
                  <<unwrap(path[k]).type_name, unwrap(unwrap(path[k]).field_name), k>>
                      \in ObjectEdges(type_map)

\* run_search aborted on a field of the root type after paths had been printed
C8_Witness ==
    /\ pc = "panic_get_type_name"
    /\ ~is_some(DeepestName(cur_field))
    /\ stdout # <<>>

\* C9 as stated: the field search never calls search with start_type = end_type, and
\* no path it emits has a hop whose field name is none.
C9_AsStated ==
    /\ (caller = "field" /\ pc = "search") => start_type # end_type
    /\ \A e \in Emitted :
          ByFieldSearch(e) => \A i \in 1..Len(e.path) : is_some(e.path[i].field_name)

\* C9 amended: search returns a hop whose field name is none exactly when it is
\* called with start_type = end_type, by either search; in an emitted path such a
\* hop is the last of two hops and carries the target's type.
C9_DegenerateLastHop ==
    /\ (caller # "main" /\ pc = "run_search_got") =>
          ((\E i \in 1..Len(ret) : ~is_some(ret[i].field_name)) <=> start_type = end_type)
    /\ \A e \in Emitted :
          \A i \in 1..Len(e.path) :
              ~is_some(e.path[i].field_name) =>
                  /\ i = 2
                  /\ Len(e.path) = 2
                  /\ e.path[i].type_name = e.result.type_name

\* the field search emitted a path whose last hop has no field name
C9_Witness ==
    \E e \in Emitted :
        /\ ByFieldSearch(e)
        /\ Len(e.path) = 2
        /\ ~is_some(e.path[2].field_name)

\* C10: print_path never fails on its lookup: every hop of every path handed to it,
\* or about to be, has a type_name that is a key of the type map.
C10_HopsAreKeys ==
    /\ pc # "panic_print_path"
    /\ pc = "print" =>
          \A i \in 1..Len(result) :
              \A j \in 1..Len(result[i]) : result[i][j].type_name \in DOMAIN type_map
    /\ \A e \in Emitted :
          \A j \in 1..Len(e.path) : e.path[j].type_name \in DOMAIN type_map

\* with show_relay false print_path looked up the hops of a path that search found
\* through a field of an expanded type
C10_Witness ==
    /\ ~args.show_relay
    /\ \E e \in Emitted :
          /\ Len(e.path) = 2
          /\ is_some(e.path[2].field_name)
          /\ Len(e.hops) = 2

=============================================================================
